---- MODULE Spec2Model ----
(***************************************************************************)
(* Leaf search of quickwit-search (src/quickwit-search/src/leaf.rs).       *)
(*                                                                         *)
(* One call of leaf_search over a list of splits: one future per split     *)
(* (leaf_search_single_split), joined with join_all, then the merge of the *)
(* successful responses on a blocking thread.  The process-wide state the  *)
(* futures share is the split footer cache (global_split_footer_cache) and *)
(* the memory usage counter behind quickwit_memory_usage().                *)
(*                                                                         *)
(* A future moves from one .await to the next in one step.                 *)
(***************************************************************************)
EXTENDS Integers, Sequences, FiniteSets, TLC

\* ------------------------------------------------------------------ bounds
\* Longest split list of a request.
MaxSplits == 2
\* Largest value of memory_threshold_to_start_leaf_request(), in memory units.
MaxThreshold == 2
\* Largest value of split_footer_cache_capacity(), in memory units.
MaxCapacity == 2

\* crate::LEAF_REQUEST_MEMORY_CUSHION, in memory units.
LEAF_REQUEST_MEMORY_CUSHION == 2

\* The split ids a request may name.
SplitIds == {"s1", "s2"}

\* split_footer_end - split_footer_start of the descriptor of a split.
FooterLen(split_id) == IF split_id = "s1" THEN 1 ELSE 2

RECURSIVE SeqsUpTo(_, _)
SeqsUpTo(S, n) ==
    IF n = 0 THEN {<<>>}
    ELSE LET shorter == SeqsUpTo(S, n - 1)
         IN shorter \cup {Append(q, x) : q \in {r \in shorter : Len(r) = n - 1}, x \in S}

VARIABLES
    splits,       \* the request's split list (split ids)
    threshold,    \* memory_threshold_to_start_leaf_request()
    capacity,     \* split_footer_cache_capacity()
    main,         \* where leaf_search is: "join", "merge", "returned", "cancelled"
    pc,           \* where each leaf_search_single_split future is
    result,       \* what each future returned
    usage,        \* the memory usage counter of quickwit_memory_usage()
    guard,        \* memory_cushion of each future: its state and its bytes
    cache,        \* the footer cache: entries, least recently used first
    footer,       \* footer_data of open_index, until it is moved into the bundle storage
    reads,        \* get_slice calls each future issued for the footer range
    merge_input,  \* split_search_responses handed to merge_fruits
    errors,       \* the (split_id, err) pairs of the partition
    merge_outcome, \* how merge_fruits on the blocking pool ended
    response,     \* what leaf_search returned
    warm,         \* one call of warmup, prefetch by prefetch (WarmupSpec)
    source        \* one SourceActor and its source (SourceSpec)

vars == <<splits, threshold, capacity, main, pc, result, usage, guard, cache,
          footer, reads, merge_input, errors, merge_outcome, response, warm, source>>

\* The variables of the leaf search.
leaf_vars == <<splits, threshold, capacity, main, pc, result, usage, guard, cache,
               footer, reads, merge_input, errors, merge_outcome, response>>

Executors == 1..Len(splits)

NoResult == [kind |-> "none", split_id |-> "", cause |-> "", context |-> {},
             hits |-> <<>>, failed_splits |-> <<>>]
\* No warmup call and no source actor are modelled in a leaf search.
NoError == [kind |-> "none", field |-> ""]
NoWarmup == [pc |-> "none", segments |-> 0, terms |-> {}, fields |-> {}, checked |-> {},
             term_pending |-> {}, term_ok |-> {}, col_pending |-> {}, col_ok |-> {},
             error |-> NoError]
NoSource ==
    [pc |-> "none", params |-> [kind |-> "void", filepath |-> "unset"], files |-> {},
     kafka_feature |-> FALSE, kafka_reachable |-> FALSE, connectivity |-> "unchecked",
     mailbox |-> 0, initialize_calls |-> 0, emit_calls |-> 0, finalize_calls |-> 0,
     message_emits |-> 0, message_sends |-> 0, exit_status |-> "none",
     exit_from |-> "none", finalize_status |-> "none"]
NoGuard == [state |-> "none", bytes |-> 0]
NoFooter == [src |-> "none", split_id |-> "", len |-> 0, by |-> 0]
NoResponse == [kind |-> "none", hits |-> <<>>, failed_splits |-> <<>>]

\* ------------------------------------------------- memory usage (gate)
\* use_memory_with_limit lets the caller through when the usage is at or
\* below the limit.
CanUseMemory(current, limit) == current <= limit

\* use_memory_with_limit(num_bytes, limit): the check and the commit of
\* num_bytes are one step; the future holds a guard afterwards.
use_memory_with_limit(i, num_bytes, limit) ==
    /\ CanUseMemory(usage, limit)
    /\ usage' = usage + num_bytes
    /\ guard' = [guard EXCEPT ![i] = [state |-> "live", bytes |-> num_bytes]]

\* A faulty acquisition: the two arguments swapped.
memory_cushion_swapped(i) ==
    use_memory_with_limit(i, threshold, LEAF_REQUEST_MEMORY_CUSHION)

\* let memory_cushion = quickwit_memory_usage().use_memory_with_limit(..).await
memory_cushion(i) ==
    use_memory_with_limit(i, LEAF_REQUEST_MEMORY_CUSHION, threshold)

\* A faulty drop: the guard is leaked (its bytes are never given back).
drop_memory_cushion_leaked(i) == [released |-> 0, guard |-> guard[i]]

\* memory_cushion goes out of scope (drop(memory_cushion), or a `?` return):
\* a live guard gives its bytes back.
drop_memory_cushion(i) ==
    IF guard[i].state = "live"
    THEN [released |-> guard[i].bytes, guard |-> [guard[i] EXCEPT !.state = "dropped"]]
    ELSE [released |-> 0, guard |-> guard[i]]

\* ------------------------------------------------------- footer cache
RECURSIVE SumLen(_)
SumLen(c) == IF c = <<>> THEN 0 ELSE Head(c).len + SumLen(Tail(c))

Positions(c, split_id) == {p \in 1..Len(c) : c[p].split_id = split_id}

Without(c, split_id) == SelectSeq(c, LAMBDA e : e.split_id # split_id)

\* MemorySizedCache::get: the entry of the key, if any.
CacheGet(c, split_id) ==
    IF Positions(c, split_id) = {} THEN NoFooter
    ELSE c[CHOOSE p \in Positions(c, split_id) : TRUE]

\* MemorySizedCache::get marks the entry as the most recently used.
CacheTouch(c, split_id) ==
    IF Positions(c, split_id) = {} THEN c
    ELSE Append(Without(c, split_id), CacheGet(c, split_id))

RECURSIVE EvictTo(_, _)
EvictTo(c, room) == IF SumLen(c) <= room THEN c ELSE EvictTo(Tail(c), room)

\* MemorySizedCache::put: an item larger than the capacity is not stored;
\* otherwise the key's slot is overwritten, after the least recently used
\* entries have been evicted to make room.
CachePut(c, cap, data) ==
    IF data.len > cap THEN c
    ELSE Append(EvictTo(Without(c, data.split_id), cap - data.len), data)

\* A faulty construction: the cache is built one unit too large.
global_split_footer_cache_too_large == capacity + 1

\* MemorySizedCache::with_capacity_in_bytes(split_footer_cache_capacity())
global_split_footer_cache_capacity == capacity

\* A faulty store: the fetched footer is not put in the cache.
StoreFooterSkipped(c, footer_data_opt) == c

\* global_split_footer_cache().put(split_id, footer_data_opt.clone())
StoreFooter(c, footer_data_opt) ==
    CachePut(c, global_split_footer_cache_capacity, footer_data_opt)

\* ------------------------------------------------------------------ Init
Init ==
    /\ splits \in SeqsUpTo(SplitIds, MaxSplits)
    /\ threshold \in 0..MaxThreshold
    /\ capacity \in 1..MaxCapacity
    /\ main = "join"
    /\ pc = [i \in Executors |-> "reserve"]
    /\ result = [i \in Executors |-> NoResult]
    /\ usage = 0
    /\ guard = [i \in Executors |-> NoGuard]
    /\ cache = <<>>
    /\ footer = [i \in Executors |-> NoFooter]
    /\ reads = [i \in Executors |-> 0]
    /\ merge_input = <<>>
    /\ errors = <<>>
    /\ merge_outcome = "none"
    /\ response = NoResponse
    /\ warm = NoWarmup
    /\ source = NoSource

\* ---------------------------------------------- leaf_search_single_split
\* A faulty error path: the split is launched again.
ReturnErrRelaunch(i, cause) ==
    /\ pc' = [pc EXCEPT ![i] = "reserve"]
    /\ result' = result
    /\ usage' = usage - guard[i].bytes
    /\ guard' = [guard EXCEPT ![i] = NoGuard]

\* A faulty context: the failed read names the split but not the storage.
FetchErrorContextNoLocation == {"split_id"}

\* Lines 72-78: "Failed to fetch hotcache and footer from {uri} for split
\* `{split_id}`".
FetchErrorContext == {"uri", "split_id"}

\* A faulty conversion: the panic is reported without the split.
PanicErrorAnonymous == {}

\* Lines 262-264: "Leaf search panicked. split={split_id}".
PanicError == {"split_id"}

\* What the message of an error names.
ErrorContext(cause) ==
    IF cause = "fetch" THEN FetchErrorContext
    ELSE IF cause = "panic" THEN PanicError
    ELSE {}

\* A future returns Err(cause): its locals, memory_cushion among them, are
\* dropped.
ReturnErr(i, cause) ==
    /\ pc' = [pc EXCEPT ![i] = "done"]
    /\ result' = [result EXCEPT ![i] =
                    [NoResult EXCEPT !.kind = "err", !.split_id = splits[i], !.cause = cause,
                                     !.context = ErrorContext(cause)]]
    /\ usage' = usage - drop_memory_cushion(i).released
    /\ guard' = [guard EXCEPT ![i] = drop_memory_cushion(i).guard]

\* Lines 231-236: the future waits for the gate and takes its cushion.
Reserve(i) ==
    /\ main = "join"
    /\ pc[i] = "reserve"
    /\ memory_cushion(i)
    /\ pc' = [pc EXCEPT ![i] = "open"]
    /\ UNCHANGED <<warm, source, splits, threshold, capacity, main, result, cache, footer, reads,
                   merge_input, errors, merge_outcome, response>>

\* A faulty lookup: the cached value is ignored.
CacheHitNever(possible_val) == FALSE

\* if let Some(footer_data) = possible_val
CacheHit(possible_val) == possible_val.src # "none"

\* Lines 58-71: the cache is asked first; on a miss get_slice is issued for
\* the footer range of "<split_id>.split".
OpenIndex(i) ==
    /\ main = "join"
    /\ pc[i] = "open"
    /\ LET possible_val == CacheGet(cache, splits[i])
       IN IF CacheHit(possible_val)
          THEN /\ footer' = [footer EXCEPT ![i] = [possible_val EXCEPT !.src = "cache"]]
               /\ cache' = CacheTouch(cache, splits[i])
               /\ pc' = [pc EXCEPT ![i] = "build"]
               /\ reads' = reads
          ELSE /\ pc' = [pc EXCEPT ![i] = "fetch"]
               /\ reads' = [reads EXCEPT ![i] = @ + 1]
               /\ cache' = CacheTouch(cache, splits[i])
               /\ footer' = footer
    /\ UNCHANGED <<warm, source, splits, threshold, capacity, main, result, usage, guard,
                   merge_input, errors, merge_outcome, response>>

\* Lines 71-85: get_slice answers. The bytes are put in the cache and
\* returned; a failed read returns the error with its context.
FetchFooter(i) ==
    /\ main = "join"
    /\ pc[i] = "fetch"
    /\ \/ LET footer_data_opt == [src |-> "storage", split_id |-> splits[i],
                                  len |-> FooterLen(splits[i]), by |-> i]
          IN /\ cache' = StoreFooter(cache, footer_data_opt)
             /\ footer' = [footer EXCEPT ![i] = footer_data_opt]
             /\ pc' = [pc EXCEPT ![i] = "build"]
             /\ UNCHANGED <<result, usage, guard>>
       \/ /\ ReturnErr(i, "fetch")
          /\ UNCHANGED <<cache, footer>>
    /\ UNCHANGED <<warm, source, splits, threshold, capacity, main, reads, merge_input, errors,
                   merge_outcome, response>>

\* Lines 100-110 and 238-253: with no await, footer_data is moved into the
\* bundle storage and the hot directory and the index are opened (an open
\* error), then the collector, the query and the reader are built (a query
\* error).
BuildQuery(i) ==
    /\ main = "join"
    /\ pc[i] = "build"
    /\ footer' = [footer EXCEPT ![i] = NoFooter]
    /\ \/ /\ pc' = [pc EXCEPT ![i] = "warm_up_terms"]
          /\ UNCHANGED <<result, usage, guard>>
       \/ \E cause \in {"open", "query"} : ReturnErr(i, cause)
    /\ UNCHANGED <<warm, source, splits, threshold, capacity, main, cache, reads,
                   merge_input, errors, merge_outcome, response>>

\* Lines 127-129: the term prefetches are awaited.
WarmUpTerms(i) ==
    /\ main = "join"
    /\ pc[i] = "warm_up_terms"
    /\ \/ /\ pc' = [pc EXCEPT ![i] = "warm_up_fastfields"]
          /\ UNCHANGED <<result, usage, guard>>
       \/ ReturnErr(i, "warm_up_terms")
    /\ UNCHANGED <<warm, source, splits, threshold, capacity, main, cache, footer, reads,
                   merge_input, errors, merge_outcome, response>>

\* Lines 130-132 and 255-256: the fast field prefetches are awaited; then
\* memory_cushion is dropped and the search is spawned on the blocking pool.
WarmUpFastFields(i) ==
    /\ main = "join"
    /\ pc[i] = "warm_up_fastfields"
    /\ \/ /\ pc' = [pc EXCEPT ![i] = "search"]
          /\ usage' = usage - drop_memory_cushion(i).released
          /\ guard' = [guard EXCEPT ![i] = drop_memory_cushion(i).guard]
          /\ UNCHANGED result
       \/ ReturnErr(i, "warm_up_fastfields")
    /\ UNCHANGED <<warm, source, splits, threshold, capacity, main, cache, footer, reads,
                   merge_input, errors, merge_outcome, response>>

\* Lines 256-265: the blocking search ends: a response, a search error, or a
\* panic mapped to SearchError::InternalError.
Search(i) ==
    /\ main = "join"
    /\ pc[i] = "search"
    /\ \/ /\ pc' = [pc EXCEPT ![i] = "done"]
          /\ result' = [result EXCEPT ![i] =
                          [NoResult EXCEPT !.kind = "ok", !.split_id = splits[i], !.hits = <<i>>]]
          /\ UNCHANGED <<usage, guard>>
       \/ \E cause \in {"search", "panic"} : ReturnErr(i, cause)
    /\ UNCHANGED <<warm, source, splits, threshold, capacity, main, cache, footer, reads,
                   merge_input, errors, merge_outcome, response>>

\* ------------------------------------------------------------ leaf_search
\* A faulty join: it resolves at the first Err (try_join_all).
JoinAllShortCircuit ==
    \/ \A i \in Executors : pc[i] = "done"
    \/ \E i \in Executors : result[i].kind = "err"

\* futures::future::join_all(..).await resolves when every future has.
JoinAllReady == \A i \in Executors : pc[i] = "done"

\* A faulty partition: the Err results are dropped.
PartitionErrorsLost(split_search_results) ==
    [responses |-> SelectSeq(split_search_results, LAMBDA r : r.kind = "ok"),
     errors |-> <<>>]

\* partition_map: Ok on the left, Err on the right, each in the order of
\* the split list.
Partition(split_search_results) ==
    [responses |-> SelectSeq(split_search_results, LAMBDA r : r.kind = "ok"),
     errors |-> SelectSeq(split_search_results, LAMBDA r : r.kind = "err")]

\* Lines 296-306: every future has resolved; the results are partitioned and
\* merge_fruits is spawned on the blocking pool.
JoinAll ==
    /\ main = "join"
    /\ JoinAllReady
    /\ merge_input' = Partition(result).responses
    /\ errors' = Partition(result).errors
    /\ main' = "merge"
    /\ UNCHANGED <<warm, source, splits, threshold, capacity, pc, result, usage, guard, cache,
                   footer, reads, merge_outcome, response>>

RECURSIVE Concat(_, _)
Concat(responses, field) ==
    IF responses = <<>> THEN <<>>
    ELSE Head(responses)[field] \o Concat(Tail(responses), field)

\* merge_collector.merge_fruits(split_search_responses)
merge_fruits(split_search_responses) ==
    [hits |-> Concat(split_search_responses, "hits"),
     failed_splits |-> Concat(split_search_responses, "failed_splits")]

\* A faulty conversion: the failed splits are reported as not retryable.
SplitSearchErrorsNotRetryable(errs) ==
    [k \in 1..Len(errs) |->
        [split_id |-> errs[k].split_id, error |-> errs[k].cause, retryable_error |-> FALSE]]

\* Lines 315-319: one SplitSearchError per (split_id, err).
SplitSearchErrors(errs) ==
    [k \in 1..Len(errs) |->
        [split_id |-> errs[k].split_id, error |-> errs[k].cause, retryable_error |-> TRUE]]

\* A faulty return: a split error fails the whole call.
LeafSearchReturnFailFast(outcome, merged, errs) ==
    IF outcome = "ok" /\ errs = <<>>
    THEN [kind |-> "ok", hits |-> merged.hits, failed_splits |-> merged.failed_splits]
    ELSE [NoResponse EXCEPT !.kind = "err"]

\* Lines 307-320: `??` returns the join error or the merge error; otherwise
\* the merged response is returned with the failed splits appended.
LeafSearchReturn(outcome, merged, errs) ==
    IF outcome = "ok"
    THEN [kind |-> "ok", hits |-> merged.hits,
          failed_splits |-> merged.failed_splits \o SplitSearchErrors(errs)]
    ELSE [NoResponse EXCEPT !.kind = "err"]

\* Lines 307-320: the blocking merge ends (a response, an error or a panic)
\* and leaf_search returns.
Merge ==
    /\ main = "merge"
    /\ \E outcome \in {"ok", "err", "panic"} :
         /\ merge_outcome' = outcome
         /\ response' = LeafSearchReturn(outcome, merge_fruits(merge_input), errors)
    /\ main' = "returned"
    /\ UNCHANGED <<warm, source, splits, threshold, capacity, pc, result, usage, guard, cache,
                   footer, reads, merge_input, errors>>

RECURSIVE SumReleased(_)
SumReleased(S) ==
    IF S = {} THEN 0
    ELSE LET i == CHOOSE x \in S : TRUE
         IN drop_memory_cushion(i).released + SumReleased(S \ {i})

InFlight == {i \in Executors : pc[i] # "done"}

\* The caller drops the leaf_search future at one of its awaits (lines 296,
\* 310): the futures still in flight are dropped with their locals.
Cancel ==
    /\ main \in {"join", "merge"}
    /\ main' = "cancelled"
    /\ pc' = [i \in Executors |-> IF i \in InFlight THEN "cancelled" ELSE pc[i]]
    /\ usage' = usage - SumReleased(InFlight)
    /\ guard' = [i \in Executors |->
                    IF i \in InFlight THEN drop_memory_cushion(i).guard ELSE guard[i]]
    /\ UNCHANGED <<warm, source, splits, threshold, capacity, result, cache, footer, reads,
                   merge_input, errors, merge_outcome, response>>

\* One step of the future of the i-th split.
SingleSplit(i) ==
    /\ i \in Executors
    /\ \/ Reserve(i)
       \/ OpenIndex(i)
       \/ FetchFooter(i)
       \/ BuildQuery(i)
       \/ WarmUpTerms(i)
       \/ WarmUpFastFields(i)
       \/ Search(i)

Run == \/ \E i \in 1..MaxSplits : SingleSplit(i)
       \/ JoinAll
       \/ Merge

Next == Run \/ Cancel

Spec == Init /\ [][Next]_vars

\* A call that its caller does not cancel, on a runtime that polls every
\* woken future and runs every spawned blocking task.
LiveSpec ==
    /\ Init
    /\ [][Run]_vars
    /\ \A i \in 1..MaxSplits : WF_vars(SingleSplit(i))
    /\ WF_vars(JoinAll)
    /\ WF_vars(Merge)

\* ================================================================ warmup
\* One call of warmup (lines 122-190) from leaf_search_single_split (line
\* 254), prefetch by prefetch; WarmUpTerms and WarmUpFastFields above are
\* its two awaits taken as one step each.

\* Largest number of segments of a split.
MaxSegments == 2

\* The terms a query may hold and the field names a collector may ask for.
QueryTerms == {"t1", "t2"}
FieldNames == {"a", "b", "c", "d"}
\* The schema of the split: "a" and "d" are fast fields, "b" is a field
\* that is not fast, "c" is no field of the schema.
SchemaFields == {"a", "b", "d"}
FastFields == {"a", "d"}

Segments(w) == 1..w.segments
\* warm_up_terms: one warm_postings per segment and term (lines 179-186).
TermPrefetches(w) == Segments(w) \X w.terms
\* warm_up_fastfields: one read_bytes_async per field and segment (lines
\* 160-165).
ColumnPrefetches(w) == w.checked \X Segments(w)

\* No leaf search is modelled while a warmup or a source is.
LeafIdle ==
    /\ splits = <<>>
    /\ threshold = 0
    /\ capacity = 1
    /\ main = "none"
    /\ pc = <<>>
    /\ result = <<>>
    /\ usage = 0
    /\ guard = <<>>
    /\ cache = <<>>
    /\ footer = <<>>
    /\ reads = <<>>
    /\ merge_input = <<>>
    /\ errors = <<>>
    /\ merge_outcome = "none"
    /\ response = NoResponse

WarmupInit ==
    /\ LeafIdle
    /\ source = NoSource
    /\ \E n \in 0..MaxSegments, ts \in SUBSET QueryTerms, fs \in SUBSET FieldNames :
          warm = [NoWarmup EXCEPT !.pc = "warm_up_terms", !.segments = n,
                                  !.terms = ts, !.fields = fs]

\* A faulty join: a failed prefetch is taken as a finished one.
PrefetchFailedIgnored(w, kind, prefetch) ==
    [w EXCEPT !.term_pending = @ \ {prefetch}, !.col_pending = @ \ {prefetch}]

\* try_join_all(warm_up_futures).await? (lines 166, 188): the first failed
\* prefetch resolves the join with its error; the other futures are dropped.
PrefetchFailed(w, kind, prefetch) ==
    [w EXCEPT !.pc = "err", !.error = [kind |-> kind, field |-> ""],
              !.term_pending = {}, !.col_pending = {}]

\* Lines 171-188, first poll: the term prefetches are built and polled; an
\* inverted index that cannot be opened returns its error at once.
IssueTermPrefetches ==
    /\ warm.pc = "warm_up_terms"
    /\ \/ warm' = [warm EXCEPT !.pc = "terms_join", !.term_pending = TermPrefetches(warm)]
       \/ /\ TermPrefetches(warm) # {}
          /\ warm' = [warm EXCEPT !.pc = "err",
                                  !.error = [kind |-> "inverted_index", field |-> ""]]
    /\ UNCHANGED <<leaf_vars, source>>

\* One warm_postings ends.
TermPrefetchDone ==
    /\ warm.pc = "terms_join"
    /\ \E k \in warm.term_pending :
          \/ warm' = [warm EXCEPT !.term_pending = @ \ {k}, !.term_ok = @ \cup {k}]
          \/ warm' = PrefetchFailed(warm, "warm_postings", k)
    /\ UNCHANGED <<leaf_vars, source>>

\* A faulty warmup: the two passes are started together.
TermsPassStarted == warm.pc \in {"terms_join", "warm_up_fastfields"}

\* warm_up_terms(..).await? has returned Ok (lines 127-129).
TermsPassReturned == warm.pc = "warm_up_fastfields"

\* Line 188-189: every term prefetch has ended well; warm_up_terms returns
\* Ok and warm_up_fastfields is called.
TermsJoined ==
    /\ warm.pc = "terms_join"
    /\ warm.term_pending = {}
    /\ warm' = [warm EXCEPT !.pc = "warm_up_fastfields"]
    /\ UNCHANGED <<leaf_vars, source>>

\* Lines 141-157: the next name of the HashSet is looked up in the schema
\* and checked to be a fast field.
ValidateField ==
    /\ TermsPassReturned
    /\ warm.col_pending = {} /\ warm.col_ok = {}
    /\ \E f \in warm.fields \ warm.checked :
          IF f \notin SchemaFields
          THEN warm' = [warm EXCEPT !.pc = "err",
                                    !.error = [kind |-> "no_such_field", field |-> f]]
          ELSE IF f \notin FastFields
          THEN warm' = [warm EXCEPT !.pc = "err",
                                    !.error = [kind |-> "not_fast", field |-> f]]
          ELSE warm' = [warm EXCEPT !.checked = @ \cup {f}]
    /\ UNCHANGED <<leaf_vars, source>>

\* A faulty loop: a field's column is prefetched as soon as it is checked.
ValidationStarted == warm.checked # {}

\* The first loop (lines 141-157) has gone through every name.
ValidationDone == warm.checked = warm.fields

\* Lines 159-166, first poll: the column prefetches are built and polled;
\* a column file that cannot be opened returns its error at once.
IssueColumnPrefetches ==
    /\ TermsPassReturned
    /\ ValidationDone
    /\ warm.col_pending = {} /\ warm.col_ok = {}
    /\ \/ warm' = [warm EXCEPT !.pc = "columns_join", !.col_pending = ColumnPrefetches(warm)]
       \/ /\ ColumnPrefetches(warm) # {}
          /\ warm' = [warm EXCEPT !.pc = "err",
                                  !.error = [kind |-> "fast_field_data", field |-> ""]]
    /\ UNCHANGED <<leaf_vars, source>>

\* One read_bytes_async ends.
ColumnPrefetchDone ==
    /\ warm.pc = "columns_join"
    /\ \E k \in warm.col_pending :
          \/ warm' = [warm EXCEPT !.col_pending = @ \ {k}, !.col_ok = @ \cup {k}]
          \/ warm' = PrefetchFailed(warm, "read_bytes_async", k)
    /\ UNCHANGED <<leaf_vars, source>>

\* Lines 166-167, 133 and 254-256: every column prefetch has ended well;
\* warmup returns Ok and the search is spawned.
ColumnsJoined ==
    /\ warm.pc = "columns_join"
    /\ warm.col_pending = {}
    /\ warm' = [warm EXCEPT !.pc = "search"]
    /\ UNCHANGED <<leaf_vars, source>>

\* Line 254: `?` returns the error of warmup; no search is spawned.
WarmupFailed ==
    /\ warm.pc = "err"
    /\ warm' = [warm EXCEPT !.pc = "returned_err"]
    /\ UNCHANGED <<leaf_vars, source>>

WarmupNext ==
    \/ IssueTermPrefetches
    \/ TermPrefetchDone
    \/ TermsJoined
    \/ ValidateField
    \/ IssueColumnPrefetches
    \/ ColumnPrefetchDone
    \/ ColumnsJoined
    \/ WarmupFailed

WarmupSpec == WarmupInit /\ [][WarmupNext]_vars

\* ================================================================ claims
Failed == {i \in Executors : result[i].kind = "err"}
Succeeded == {i \in Executors : result[i].kind = "ok"}
LiveGuards == {i \in Executors : guard[i].state = "live"}
Count(q, split_id) == Cardinality({k \in 1..Len(q) : q[k].split_id = split_id})

\* C1: with N splits of which K fail, exactly the N-K successful responses
\* are handed to the merge, and a returned response lists exactly K failed
\* splits, one per failing split, each with retryable_error = TRUE.
C1_PartialFailure ==
    /\ main \in {"merge", "returned"} =>
          /\ Len(merge_input) = Len(splits) - Cardinality(Failed)
          /\ {r.hits[1] : r \in {merge_input[k] : k \in 1..Len(merge_input)}} = Succeeded
    /\ (main = "returned" /\ response.kind = "ok") =>
          /\ Len(response.failed_splits) = Cardinality(Failed)
          /\ Len(response.hits) = Len(splits) - Cardinality(Failed)
          /\ \A s \in SplitIds :
                Count(response.failed_splits, s)
                    = Cardinality({i \in Failed : splits[i] = s})
          /\ \A k \in 1..Len(response.failed_splits) :
                response.failed_splits[k].retryable_error = TRUE

C1_Witness ==
    /\ main = "returned"
    /\ response.kind = "ok"
    /\ Len(splits) = 2
    /\ Cardinality(Failed) = 1
    /\ Len(response.failed_splits) = 1

\* C2: leaf_search returns an error exactly when the merge errors or
\* panics; a split error of any cause becomes a failed-split entry of a
\* returned response.
C2_OnlyMergeIsFatal ==
    main = "returned" =>
        /\ response.kind = "err" <=> merge_outcome \in {"err", "panic"}
        /\ response.kind = "ok" <=> merge_outcome = "ok"
        /\ response.kind = "ok" =>
              \A i \in Failed : \E k \in 1..Len(response.failed_splits) :
                 /\ response.failed_splits[k].split_id = splits[i]
                 /\ response.failed_splits[k].error = result[i].cause

C2_Witness ==
    /\ main = "returned"
    /\ response.kind = "ok"
    /\ \E i \in Executors : result[i].cause = "fetch"
    /\ \E i \in Executors : result[i].cause = "panic"

\* C3: the merge starts only after every future has resolved; a failure
\* neither resolves the join early nor aborts a sibling, and the only thing
\* that suspends a launched future is the memory gate.
C3_JoinWaitsForAll ==
    /\ main \in {"merge", "returned"} => \A i \in Executors : pc[i] = "done"
    /\ main # "cancelled" => \A i \in Executors : pc[i] # "cancelled"
    /\ main = "join" =>
          \A i \in Executors :
             pc[i] # "done" =>
                \/ ENABLED SingleSplit(i)
                \/ pc[i] = "reserve" /\ ~CanUseMemory(usage, threshold)

C3_Witness ==
    /\ main = "join"
    /\ \E i, j \in Executors :
          /\ result[i].kind = "err"
          /\ pc[j] \in {"fetch", "warm_up_terms", "warm_up_fastfields", "search"}

\* C4: a cushion taken by a future is given back on every way out (drop
\* after the warmup, an error return, cancellation): the usage is the sum of
\* the live guards, a future that is over holds none, and with no future in
\* flight the usage is back to its initial value.
RECURSIVE SumBytes(_)
SumBytes(S) ==
    IF S = {} THEN 0
    ELSE LET i == CHOOSE x \in S : TRUE IN guard[i].bytes + SumBytes(S \ {i})

C4_CushionReleased ==
    /\ usage = SumBytes(LiveGuards)
    /\ \A i \in Executors :
          /\ pc[i] \in {"search", "done", "cancelled"} => guard[i].state # "live"
          /\ pc[i] \in {"search", "done"} => guard[i].state = "dropped"
    /\ (\A i \in Executors : pc[i] \in {"reserve", "search", "done", "cancelled"}) => usage = 0

C4_Witness ==
    /\ Len(splits) = 2
    /\ \A i \in Executors : pc[i] = "done"
    /\ result[1].cause = "warm_up_terms"
    /\ result[2].cause = "open"
    /\ guard[1].state = "dropped" /\ guard[2].state = "dropped"
    /\ usage = 0

\* A step that admits future i through the gate.
Admitted(i) == i \in Executors /\ guard[i].state = "none" /\ guard'[i].state = "live"

C8_CachedFooterNotRefetched ==
    [][\A i \in 1..MaxSplits :
          (/\ i \in Executors
           /\ pc[i] = "open"
           /\ pc'[i] \notin {"open", "cancelled"}
           /\ Positions(cache, splits[i]) # {})
          => /\ pc'[i] = "build"
             /\ reads' = reads
             /\ footer'[i] = [CacheGet(cache, splits[i]) EXCEPT !.src = "cache"]
             /\ footer'[i].split_id = splits[i]
             /\ footer'[i].len = FooterLen(splits[i])]_vars

C8_Witness ==
    \E i, j \in Executors :
        /\ footer[j].src = "storage"
        /\ footer[i].src = "cache"
        /\ footer[i].by = j
        /\ reads[i] = 0

\* C9: a future that missed the cache reads the footer from storage and puts
\* it, whatever another future of the same split did meanwhile: it goes on
\* with the full footer, and right after its put the cache holds at most
\* one entry for the split, the one it put (if the footer fits the cache).
C9_ConcurrentMissLastPutWins ==
    [][\A i \in 1..MaxSplits :
          (i \in Executors /\ pc[i] = "fetch" /\ pc'[i] = "build")
          => /\ result'[i].kind = "none"
             /\ footer'[i].src = "storage"
             /\ footer'[i].split_id = splits[i]
             /\ footer'[i].len = FooterLen(splits[i])
             /\ Cardinality(Positions(cache', splits[i])) <= 1
             /\ FooterLen(splits[i]) <= capacity
                   => /\ Positions(cache', splits[i]) # {}
                      /\ CacheGet(cache', splits[i]).by = i]_vars

C9_Witness ==
    /\ Len(splits) = 2
    /\ splits[1] = splits[2]
    /\ reads[1] = 1 /\ reads[2] = 1
    /\ footer[1].src = "storage" /\ footer[2].src = "storage"
    /\ Positions(cache, splits[1]) # {}
    /\ CacheGet(cache, splits[1]).by = 1

\* C10: the cache holds at most one entry per split id and its resident
\* bytes never exceed the configured capacity; a put evicts to keep it so.
C10_CacheBounded ==
    /\ \A s \in SplitIds : Cardinality(Positions(cache, s)) <= 1
    /\ SumLen(cache) <= capacity

C10_Witness ==
    /\ \E i \in Executors : footer[i].src = "storage" /\ footer[i].split_id = "s1"
    /\ FooterLen("s1") <= capacity
    /\ Positions(cache, "s1") = {}
    /\ Positions(cache, "s2") # {}

\* C11: a panic of the blocking search becomes an internal error that names
\* the split; the future is over, the join can resolve, the split is listed
\* as failed and the responses of the other splits are still merged.
C11_PanicBecomesFailedSplit ==
    /\ \A i \in Executors :
          result[i].cause = "panic" =>
             /\ pc[i] = "done"
             /\ result[i].kind = "err"
             /\ result[i].split_id = splits[i]
             /\ "split_id" \in result[i].context
    /\ (main = "join" /\ \A i \in Executors : pc[i] = "done") => ENABLED JoinAll
    /\ (main \in {"merge", "returned"} /\ \E i \in Executors : result[i].cause = "panic") =>
          merge_input = SelectSeq(result, LAMBDA r : r.kind = "ok")
    /\ (main = "returned" /\ response.kind = "ok") =>
          /\ \A i \in Executors :
                result[i].cause = "panic" =>
                   \E k \in 1..Len(response.failed_splits) :
                      /\ response.failed_splits[k].split_id = splits[i]
                      /\ response.failed_splits[k].error = "panic"
          /\ (\E i \in Executors : result[i].cause = "panic") =>
                {response.hits[k] : k \in 1..Len(response.hits)} = Succeeded

C11_Witness ==
    /\ main = "returned"
    /\ response.kind = "ok"
    /\ Len(splits) = 2
    /\ result[1].cause = "panic"
    /\ result[2].kind = "ok"
    /\ response.hits = <<2>>

\* The order of the phases of a future.
Rank(phase) ==
    CASE phase = "reserve" -> 0
      [] phase = "open" -> 1
      [] phase = "fetch" -> 2
      [] phase = "build" -> 3
      [] phase = "warm_up_terms" -> 4
      [] phase = "warm_up_fastfields" -> 5
      [] phase = "search" -> 6
      [] OTHER -> 7

\* C13: nothing is retried: each entry of the split list is executed at
\* most once (its future never goes back to an earlier phase, and stays
\* over once it is), it reads its footer range from storage at most once,
\* and a failed split is only listed, with retryable_error = TRUE.
C13_NoRetry ==
    /\ [](\A i \in Executors : reads[i] <= 1)
    /\ [][\A i \in 1..MaxSplits :
            i \in Executors =>
               /\ Rank(pc'[i]) >= Rank(pc[i])
               /\ pc[i] = "done" =>
                     /\ pc'[i] = "done"
                     /\ result'[i] = result[i]
                     /\ reads'[i] = reads[i]
                     /\ guard'[i] = guard[i]]_vars
    /\ []((main = "returned" /\ response.kind = "ok") =>
             \A i \in Failed : \E k \in 1..Len(response.failed_splits) :
                /\ response.failed_splits[k].split_id = splits[i]
                /\ response.failed_splits[k].retryable_error)

C13_Witness ==
    /\ main = "returned"
    /\ response.kind = "ok"
    /\ \E i \in Executors :
          /\ result[i].cause = "fetch"
          /\ reads[i] = 1
          /\ Len(response.failed_splits) = 1
          /\ response.failed_splits[1].retryable_error

\* The phase changes of a future: the next phase, Err from a phase that can
\* fail, or cancellation.
PhaseSteps ==
    {<<"reserve", "open">>, <<"open", "fetch">>, <<"open", "build">>,
     <<"fetch", "build">>, <<"build", "warm_up_terms">>,
     <<"warm_up_terms", "warm_up_fastfields">>, <<"warm_up_fastfields", "search">>,
     <<"search", "done">>}
    \cup ({"fetch", "build", "warm_up_terms", "warm_up_fastfields"} \X {"done"})
    \cup ({"reserve", "open", "fetch", "build", "warm_up_terms", "warm_up_fastfields",
           "search"} \X {"cancelled"})

\* C16: a future goes reserve, open, build, warmup, release, search: it has
\* read nothing from storage before it is admitted, it holds its cushion
\* through the open and the warmup, and has given it back when the search
\* starts, so that the futures in the search phase do not count at the gate.
C16_PhasesAndCushion ==
    /\ [](\A i \in Executors :
            /\ pc[i] = "reserve" => (guard[i].state = "none" /\ reads[i] = 0)
            /\ reads[i] > 0 => guard[i].state # "none"
            /\ pc[i] \in {"open", "fetch", "build", "warm_up_terms", "warm_up_fastfields"}
                  => guard[i].state = "live"
            /\ pc[i] = "search" => guard[i].state = "dropped")
    /\ [](\A i \in Executors :
            (/\ main = "join"
             /\ pc[i] = "reserve"
             /\ \A j \in Executors \ {i} : pc[j] \in {"reserve", "search", "done"})
            => ENABLED Reserve(i))
    /\ [][\A i \in 1..MaxSplits :
            (i \in Executors /\ pc'[i] # pc[i]) => <<pc[i], pc'[i]>> \in PhaseSteps]_vars

C16_Witness ==
    /\ threshold = 0
    /\ Len(splits) = 2
    /\ pc[1] = "search"
    /\ pc[2] = "search"

\* C19: a failed read of the footer range returns an error that names the
\* storage and the split and leaves the cache as it was; an open of a split
\* that is not in the cache issues the read.
C19_FailedFetchNotCached ==
    /\ [][\A i \in 1..MaxSplits :
            (i \in Executors /\ pc[i] = "fetch" /\ result'[i].kind = "err")
            => /\ cache' = cache
               /\ result'[i].cause = "fetch"
               /\ result'[i].split_id = splits[i]
               /\ {"uri", "split_id"} \subseteq result'[i].context]_vars
    /\ [][\A i \in 1..MaxSplits :
            (/\ i \in Executors
             /\ pc[i] = "open"
             /\ pc'[i] \notin {"open", "cancelled"}
             /\ Positions(cache, splits[i]) = {})
            => /\ pc'[i] = "fetch"
               /\ reads'[i] = reads[i] + 1]_vars

C19_Witness ==
    /\ threshold = 0
    /\ Len(splits) = 2
    /\ splits[1] = splits[2]
    /\ result[1].cause = "fetch"
    /\ Positions(cache, splits[1]) = {}
    /\ pc[2] = "fetch"
    /\ reads[2] = 1

\* ------------------------------------------------------------ the source
\* The calls to emit_batches that are counted.
MaxBatches == 3
\* The Loop messages the mailbox can hold.
MaxMailbox == 2

ExitStatuses == {"Success", "Failure"}
FilePaths == {"/a", "/b"}

SourceParams ==
    [kind : {"file"}, filepath : {"unset"} \cup FilePaths]
    \cup [kind : {"kafka", "vec", "void"}, filepath : {"unset"}]

SourceInit ==
    /\ LeafIdle
    /\ warm = NoWarmup
    /\ \E params \in SourceParams, files \in SUBSET FilePaths,
          kafka_feature \in BOOLEAN, kafka_reachable \in BOOLEAN :
          source = [NoSource EXCEPT !.pc = "spawned", !.params = params, !.files = files,
                                    !.kafka_feature = kafka_feature,
                                    !.kafka_reachable = kafka_reachable]

\* A faulty existence test: every path exists.
PathExistsAlways(files, filepath) == TRUE

\* Path::new(filepath).exists()
PathExists(files, filepath) == filepath \in files

check_source_connectivity(s) ==
    IF s.params.kind = "file"
    THEN IF s.params.filepath # "unset" /\ ~PathExists(s.files, s.params.filepath)
         THEN "file_does_not_exist"
         ELSE "ok"
    ELSE IF s.params.kind = "kafka"
    THEN IF ~s.kafka_feature
         THEN "no_kafka_feature"
         ELSE IF s.kafka_reachable THEN "ok" ELSE "kafka_check_failed"
    ELSE "ok"

CheckSourceConnectivity ==
    /\ source.pc # "none"
    /\ source.connectivity = "unchecked"
    /\ source' = [source EXCEPT !.connectivity = check_source_connectivity(source)]
    /\ UNCHANGED <<leaf_vars, warm>>

Inc(n, max) == IF n < max THEN n + 1 ELSE max

\* A `?` on an Err(exit_status): the handler returns it and the actor terminates.
Exit(s, from, status) ==
    [s EXCEPT !.pc = "terminated", !.exit_status = status, !.exit_from = from]

\* SourceActor::initialize up to its call of process_message.
SourceInitialize ==
    /\ source.pc = "spawned"
    /\ LET s == [source EXCEPT !.initialize_calls = @ + 1]
       IN  \/ source' = [s EXCEPT !.pc = "emit", !.message_emits = 0, !.message_sends = 0]
           \/ \E status \in ExitStatuses : source' = Exit(s, "initialize", status)
    /\ UNCHANGED <<leaf_vars, warm>>

\* process_message: self.source.emit_batches(..).await?
EmitBatches ==
    /\ source.pc = "emit"
    /\ LET s == [source EXCEPT !.emit_calls = Inc(@, MaxBatches),
                               !.message_emits = @ + 1]
       IN  \/ source' = [s EXCEPT !.pc = "send"]
           \/ \E status \in ExitStatuses : source' = Exit(s, "emit_batches", status)
    /\ UNCHANGED <<leaf_vars, warm>>

\* A faulty send: two Loop messages.
send_self_message_twice(s) ==
    [s EXCEPT !.pc = "idle", !.mailbox = @ + 2, !.message_sends = @ + 1]

send_self_message(s) ==
    [s EXCEPT !.pc = "idle", !.mailbox = @ + 1, !.message_sends = @ + 1]

\* process_message: ctx.send_self_message(Loop(PrivateToken)).await?; Ok(())
SendSelfMessage ==
    /\ source.pc = "send"
    /\ source.mailbox < MaxMailbox
    /\ \/ source' = send_self_message(source)
       \/ \E status \in ExitStatuses : source' = Exit(source, "send_self_message", status)
    /\ UNCHANGED <<leaf_vars, warm>>

\* The actor takes the next Loop message of its mailbox and calls process_message.
ProcessMessage ==
    /\ source.pc = "idle"
    /\ source.mailbox > 0
    /\ source' = [source EXCEPT !.pc = "emit", !.mailbox = @ - 1,
                                !.message_emits = 0, !.message_sends = 0]
    /\ UNCHANGED <<leaf_vars, warm>>

\* A faulty finalize: the loop is entered again.
finalize_and_resume(s, exit_status) ==
    [s EXCEPT !.pc = "emit", !.finalize_calls = @ + 1, !.finalize_status = exit_status]

\* SourceActor::finalize: self.source.finalize(exit_status, ctx).await?
finalize(s, exit_status) ==
    [s EXCEPT !.pc = "finalized", !.finalize_calls = @ + 1, !.finalize_status = exit_status]

\* The actor has terminated: finalize is called with its exit status.
Finalize ==
    /\ source.pc = "terminated"
    /\ source' = finalize(source, source.exit_status)
    /\ UNCHANGED <<leaf_vars, warm>>

\* source.initialize(ctx)? of the conceptual loop: a failed initialize returns.
InitializeFailed ==
    /\ source.pc = "terminated"
    /\ source.exit_from = "initialize"
    /\ source' = [source EXCEPT !.pc = "exited"]
    /\ UNCHANGED <<leaf_vars, warm>>

SourceNext ==
    \/ CheckSourceConnectivity
    \/ SourceInitialize
    \/ EmitBatches
    \/ SendSelfMessage
    \/ ProcessMessage
    \/ Finalize
    \/ InitializeFailed

SourceSpec == SourceInit /\ [][SourceNext]_vars

SourceLiveSpec == SourceSpec /\ WF_vars(Finalize)

\* ------------------------------------------------------- warmup claims
AllColumns == warm.fields \X Segments(warm)
ColumnsIssued == warm.col_pending \cup warm.col_ok
SchemaErrors == {"no_such_field", "not_fast"}

\* C12: a requested name that is no field of the schema fails the column
\* warmup with an error naming it, a field that is not fast with another
\* error naming it, and no column is prefetched unless every requested name
\* has passed the check.
C12_FieldsValidatedFirst ==
    /\ warm.error.kind = "no_such_field" =>
          warm.error.field \in warm.fields \ SchemaFields
    /\ warm.error.kind = "not_fast" =>
          warm.error.field \in (warm.fields \cap SchemaFields) \ FastFields
    /\ ColumnsIssued # {} => warm.fields \subseteq FastFields
    /\ ~(warm.fields \subseteq FastFields) =>
          /\ warm.pc \notin {"columns_join", "search"}
          /\ warm.pc = "returned_err" =>
                warm.error.kind \in SchemaErrors \cup {"inverted_index", "warm_postings"}

C12_Witness ==
    /\ warm.pc = "returned_err"
    /\ warm.error = [kind |-> "not_fast", field |-> "b"]
    /\ warm.fields = {"a", "b", "c"}
    /\ warm.checked = {"a"}
    /\ warm.segments = 2
    /\ ColumnsIssued = {}

\* C17 as stated: the column prefetches are issued without waiting for the
\* term prefetches, so while term prefetches of a call with valid fields are
\* in flight its column prefetches have been issued too.
C17_AsStated ==
    (/\ warm.pc = "terms_join"
     /\ warm.term_pending # {}
     /\ warm.fields \subseteq FastFields)
    => ColumnsIssued = AllColumns

\* C17 amended: the two passes run one after the other: no field is checked
\* and no column prefetch is issued before every term prefetch has ended
\* well, and no term prefetch is in flight with a column prefetch.
C17_PassesInSequence ==
    /\ (warm.checked # {} \/ ColumnsIssued # {} \/ warm.error.kind \in SchemaErrors) =>
          /\ warm.term_pending = {}
          /\ warm.term_ok = TermPrefetches(warm)
    /\ ~(warm.term_pending # {} /\ warm.col_pending # {})
    /\ warm.pc = "terms_join" => warm.term_pending \cup warm.term_ok = TermPrefetches(warm)
    /\ warm.pc = "columns_join" => ColumnsIssued = AllColumns

C17_Witness ==
    /\ warm.pc = "columns_join"
    /\ Cardinality(warm.col_pending) = 4
    /\ Cardinality(warm.term_ok) = 4

\* C18: warmup returns Ok, and the search is spawned, only when every term
\* prefetch (one per segment and term) and every column prefetch (one per
\* field and segment) has ended well; a warmup that has failed stays failed.
C18_SearchOnlyAfterWarmup ==
    /\ [](warm.pc = "search" =>
             /\ warm.term_ok = Segments(warm) \X warm.terms
             /\ warm.col_ok = warm.fields \X Segments(warm)
             /\ warm.term_pending = {} /\ warm.col_pending = {}
             /\ warm.error = NoError)
    /\ [](warm.error # NoError => warm.pc \in {"err", "returned_err"})
    /\ [][warm.pc \in {"err", "returned_err"} => warm'.pc \in {"err", "returned_err"}]_vars

C18_Witness ==
    /\ warm.pc = "search"
    /\ Cardinality(warm.term_ok) = 4
    /\ Cardinality(warm.col_ok) = 4

\* ------------------------------------------------------- source claims
\* C14: Source::initialize is called once and before any emit_batches;
\* emit_batches is called again and again while it returns Ok; once it has
\* returned an exit status the actor terminates and Source::finalize is
\* called once, with that status, and emit_batches is not called after it.
C14_SourceLoop ==
    /\ [](/\ source.initialize_calls <= 1
          /\ source.finalize_calls <= 1
          /\ source.emit_calls > 0 =>
                (source.initialize_calls = 1 /\ source.exit_from # "initialize")
          /\ source.finalize_calls = 1 =>
                /\ source.pc = "finalized"
                /\ source.exit_status \in ExitStatuses
                /\ source.finalize_status = source.exit_status
          /\ (source.pc = "idle" /\ source.exit_status = "none") => ENABLED ProcessMessage
          /\ source.pc = "send" => source.exit_status = "none")
    /\ [][(source'.emit_calls # source.emit_calls
           \/ source'.message_emits > source.message_emits)
          => /\ source.initialize_calls = 1
             /\ source.finalize_calls = 0
             /\ source.exit_status = "none"]_vars
    /\ [][source'.initialize_calls # source.initialize_calls
          => (source.emit_calls = 0 /\ source.pc = "spawned")]_vars
    /\ (source.exit_from = "emit_batches") ~>
          (source.finalize_calls = 1 /\ source.finalize_status = source.exit_status)

C14_Witness ==
    /\ source.pc = "finalized"
    /\ source.exit_from = "emit_batches"
    /\ source.emit_calls = MaxBatches
    /\ source.finalize_status = "Failure"

\* C15: a file source with a filepath that does not exist is an error, a
\* file source with an existing or no filepath is Ok, vec and void sources
\* are Ok, and a kafka source is an error without the kafka feature.
C15_SourceConnectivity ==
    source.connectivity # "unchecked" =>
       /\ (/\ source.params.kind = "file"
           /\ source.params.filepath # "unset"
           /\ source.params.filepath \notin source.files)
          => source.connectivity = "file_does_not_exist"
       /\ (/\ source.params.kind = "file"
           /\ (source.params.filepath = "unset" \/ source.params.filepath \in source.files))
          => source.connectivity = "ok"
       /\ source.params.kind \in {"vec", "void"} => source.connectivity = "ok"
       /\ (source.params.kind = "kafka" /\ ~source.kafka_feature)
          => source.connectivity = "no_kafka_feature"

C15_Witness ==
    /\ source.connectivity = "file_does_not_exist"
    /\ source.params = [kind |-> "file", filepath |-> "/a"]
    /\ source.files = {"/b"}

\* C20: a processed Loop message calls emit_batches once and, only when
\* that call is Ok, sends one Loop message to the actor; at most one Loop
\* message is pending; after an exit status no Loop message is sent and
\* emit_batches is not called.
C20_OneLoopMessage ==
    /\ [](/\ source.mailbox <= 1
          /\ source.message_emits <= 1
          /\ source.message_sends <= source.message_emits
          /\ source.pc = "send" => (source.message_emits = 1 /\ source.message_sends = 0)
          /\ source.pc = "idle" =>
                (source.message_emits = 1 /\ source.message_sends = 1 /\ source.mailbox = 1)
          /\ source.exit_from = "emit_batches" =>
                (source.message_sends = 0 /\ source.mailbox = 0)
          /\ source.exit_from = "send_self_message" => source.mailbox = 0)
    /\ [][source.exit_status # "none" =>
            /\ source'.mailbox = source.mailbox
            /\ source'.emit_calls = source.emit_calls
            /\ source'.message_emits = source.message_emits
            /\ source'.message_sends = source.message_sends]_vars

C20_Witness ==
    /\ source.pc = "idle"
    /\ source.mailbox = 1
    /\ source.emit_calls = 2
    /\ source.message_sends = 1

====
